---- MODULE Spec2Model ----
(***************************************************************************)
(* portofino-react-admin: the data provider and auth provider of           *)
(* src/index.ts as a state machine.  One action is one JavaScript task     *)
(* (a call made by the application, or the callbacks run when one HTTP     *)
(* response arrives); the backend's answers are the inputs.                *)
(***************************************************************************)
EXTENDS Integers, FiniteSets, Sequences, TLC

\* ------------------------------------------------------------------ bounds
MaxCalls == 2           \* data-provider operations started in one behaviour
AuthCalls == 1          \* of which, next to login and logout
NumResources == 2       \* resource names
NumTokens == 2          \* distinct tokens the backend can issue
NumUsers == 1           \* distinct users the backend can log in
ExpStep == 700          \* distance, in seconds, between the tokens' exp claims

\* ------------------------------------------------------- program constants
tokenExpirationThreshold == 600

\* ------------------------------------------------------------------ values
None == 0               \* localStorage.getItem(...) === null
NoExp == 0              \* a decoded token without an exp claim (falsy)
NoStatus == 0           \* an error without a status: the transport failed
NoUser == <<>>          \* localStorage.getItem('user') === null

Calls == 1..MaxCalls
Resources == 1..NumResources
Tokens == 1..NumTokens
Users == 1..NumUsers

\* the statuses the backend answers with; NoStatus is a transport error
Statuses == {NoStatus, 200, 401, 403, 409, 500}

\* exp claim (seconds) of each token; token 1 carries none
TokenExp(t) == (t - 1) * ExpStep

\* moments (milliseconds) at which the clock is observed: the start, for
\* every exp claim the renewal boundary and the instant right after it, and
\* the instant right after the expiry
ClockValues ==
    {0} \cup { (TokenExp(t) - tokenExpirationThreshold) * 1000 + d :
                 t \in Tokens \ {1}, d \in {0, 1} }
        \cup { TokenExp(t) * 1000 + 1 : t \in Tokens \ {1} }

VARIABLES
    token,           \* localStorage 'token'
    user,            \* localStorage 'user'
    loginUrl,        \* "default" (<base>/login) or "discovered" (<base><loginPath>)
    initialization,  \* the promise of the :description fetch
    resources,       \* resource name -> the CrudResource cached for it (0: none)
    now,             \* the clock, in milliseconds
    calls,           \* the data-provider operations
    nextCall,        \* the next operation to start
    loginCall,       \* authProvider.login in flight
    logoutCall,      \* authProvider.logout in flight
    sent,            \* the HTTP request the last step put on the wire
    resp,            \* the HTTP response the last step received
    settled,         \* the login/logout promise the last step settled
    apiVersion,      \* portofinoOptions.apiVersion
    classAccessor,   \* the property types of the CrudResource's ClassAccessor
    op,              \* one operation of a CrudResource followed request by request
    jwtItem,         \* localStorage 'jwt', the key the older renewToken writes
    lastRenew        \* the older httpClient: the time of its last renewal

crudVars == <<apiVersion, classAccessor, op, jwtItem, lastRenew>>

vars == <<token, user, loginUrl, initialization, resources, now, calls,
          nextCall, loginCall, logoutCall, sent, resp, settled, apiVersion,
          classAccessor, op, jwtItem, lastRenew>>

\* ----------------------------------------------------------------- helpers
Is2xx(s) == s >= 200 /\ s < 300

jwtDecode(jwt) == [exp |-> TokenExp(jwt)]

\* mutation: isBefore where isAfter is meant
isBefore(a, b) == a < b

\* moment(a).isAfter(moment(b))
isAfter(a, b) == a > b

\* JSON.stringify of the profile object: its values in key order
JSONstringify(o) == <<o.userId, o.displayName, o.administrator, o.groups>>

\* the profile login stores for a login response
UserProfile(result) ==
    JSONstringify([userId |-> result.userId,
                   displayName |-> result.displayName,
                   administrator |-> result.administrator,
                   groups |-> result.groups])

LoginResults ==
    { [jwt |-> t, userId |-> u, displayName |-> u, administrator |-> (u = 1),
       groups |-> {u}] : t \in Tokens, u \in Users }

Profiles == { UserProfile(r) : r \in LoginResults }

IdleCall ==
    [pc |-> "idle", res |-> 0, phase |-> "none", afterFirst |-> FALSE,
     disc |-> 0, renews |-> 0, origs |-> 0, renewed |-> FALSE,
     failedAt |-> "none", outcome |-> NoStatus]

NoSettle == [op |-> "none", outcome |-> "none", error |-> NoStatus]

NoRequest == [kind |-> "none", call |-> 0, bearer |-> None, stored |-> None,
              url |-> "none"]
NoResponse == [kind |-> "none", call |-> 0, status |-> NoStatus, body |-> None,
               profile |-> NoUser]

\* ----------------------------------------------- CrudResource: the data
\* Bounds of the CrudResource part of the model.
MaxIds == 2          \* longest params.ids
NumIds == 2          \* distinct ids an application asks for
MaxEpoch == 2        \* largest epoch-millisecond value on the wire
MaxCount == 2        \* largest number a bulk DELETE answers with
MaxRequests == 4     \* requests of one operation that are answered

Ids == 1..NumIds
IdLists == UNION {[1..n -> Ids] : n \in 0..MaxIds}

\* JavaScript values, tagged with what typeof / instanceof tell apart.
Absent == <<"absent">>                 \* the object has no such property
Undefined == <<"undefined">>
Null == <<"null">>
Number(n) == <<"number", n>>
String(s) == <<"string", s>>
Envelope(v) == <<"envelope", v>>       \* {value: v, displayValue: ...}
Date(t) == <<"Date", t>>               \* new Date(t)

\* !x of JavaScript.
falsy(x) ==
    \/ x \in {Absent, Undefined, Null}
    \/ x[1] = "number" /\ x[2] = 0
    \/ x[1] = "string" /\ x[2] = ""

\* x.hasOwnProperty("value"); throws a TypeError on undefined and null.
hasOwnPropertyThrows(x) == x \in {Undefined, Null}
hasOwnPropertyValue(x) == x[1] = "envelope"

\* new Date(v) for the values an envelope carries: a number of milliseconds,
\* or null, which JavaScript converts to 0.
newDate(v) == IF v[1] = "number" THEN Date(v[2]) ELSE Date(0)
getTime(d) == Number(d[2])

\* semver versions as the tuple of their dot-separated numbers: "5.2" is
\* <<5, 2>>, "5.2.0" is <<5, 2, 0>>.
defaultApiVersion == <<5, 2>>
PORTOFINO_API_VERSION == <<5, 2>>
Versions == {<<5, 1>>, <<5, 2>>, <<5, 1, 0>>, <<5, 2, 0>>, <<6, 0, 0>>}

\* semver 7 (package.json: "semver": "^7.3.2"), functions/gte.js:
\*   gte(a, b) = new SemVer(a).compare(new SemVer(b)) >= 0
\* and classes/semver.js: the constructor matches the string against
\* MAJOR.MINOR.PATCH and throws TypeError("Invalid Version: ...") when it does
\* not match, which is the case of every two-number version.
semverValid(v) == Len(v) = 3
gteThrows(a, b) == ~semverValid(a) \/ ~semverValid(b)
gte(a, b) ==
    \/ a[1] > b[1]
    \/ a[1] = b[1] /\ a[2] > b[2]
    \/ a[1] = b[1] /\ a[2] = b[2] /\ a[3] >= b[3]

\* Records of the backend, as objects over these property names.
Fields == {"id", "__rowKey", "name", "date"}
DateTypes == {"java.util.Date", "java.sql.Date", "java.sql.Timestamp"}
ClassAccessors ==
    {[p \in {"id", "name", "date"} |->
        CASE p = "id" -> "java.lang.Long"
          [] p = "name" -> "java.lang.String"
          [] OTHER -> t] : t \in DateTypes \cup {"java.lang.Long"}}
EpochValues == 0..MaxEpoch
WireRecords ==
    {[f \in Fields |->
        CASE f = "id" -> a
          [] f = "__rowKey" -> b
          [] f = "name" -> c
          [] OTHER -> d] :
        a \in {Absent, Number(0), Number(1), Envelope(Number(0)),
              Envelope(Number(1))},
        b \in {Absent, String("k")},
        c \in {Absent, String("n"), Envelope(String("n"))},
        d \in {Absent} \cup {Envelope(Number(v)) : v \in EpochValues}
                       \cup {Number(v) : v \in EpochValues}}

\* One operation on a CrudResource: the request it waits on and how it ended.
NoBody == <<"none">>
NoError == <<"none">>
NoResult == <<"none">>
NoReq == [method |-> "none", header |-> FALSE, target |-> NoBody,
          body |-> NoBody]
\* params of getList: sort, pagination and filter, each of them optional
NoParams == [sort |-> Absent, pagination |-> Absent, filter |-> Absent,
             target |-> Absent]
IdleOp == [pc |-> "idle", via |-> "direct", method |-> "none", res |-> 1,
           id |-> 0, ids |-> <<>>, data |-> NoBody, i |-> 0,
           req |-> NoReq, net |-> 0, fetched |-> <<>>, acc |-> <<>>,
           json |-> NoBody, respHeader |-> FALSE, status |-> NoStatus,
           params |-> NoParams, variant |-> "index.ts",
           result |-> NoResult, error |-> NoError]

\* ------------------------------------------------------------------- Init
InitSession ==
    /\ \/ token = None /\ user = NoUser
       \/ token \in Tokens /\ user \in Profiles
    /\ loginUrl = "default"
    /\ initialization = "pending"
    /\ resources = [r \in Resources |-> 0]
    /\ now = 0
    /\ calls = [c \in Calls |-> IdleCall]
    /\ nextCall = 1
    /\ loginCall = "idle"
    /\ logoutCall = "idle"
    /\ sent = [kind |-> "description", call |-> 0, bearer |-> None,
                   stored |-> token, url |-> "base"]
    /\ resp = NoResponse
    /\ settled = NoSettle

Init ==
    /\ InitSession
    /\ apiVersion = defaultApiVersion
    /\ classAccessor \in {ca \in ClassAccessors : ca["date"] = "java.util.Date"}
    /\ op = IdleOp
    /\ jwtItem = None
    /\ lastRenew = 0

Tick ==
    /\ \E t \in ClockValues : t > now /\ now' = t
    /\ sent' = NoRequest /\ resp' = NoResponse /\ settled' = NoSettle
    /\ UNCHANGED <<token, user, loginUrl, initialization, resources, calls,
                   nextCall, loginCall, logoutCall>>
    /\ UNCHANGED crudVars

\* ------------------------------------------------------------- httpClient
\* the guard of lines 110-116: a token is stored, the call is not the renewal
\* itself, the token has an exp claim and the clock is past exp - threshold
shouldRefresh(jwt, dontRefreshToken, t) ==
    /\ jwt # None
    /\ ~dontRefreshToken
    /\ LET tk == jwtDecode(jwt) IN
         /\ tk.exp # NoExp
         /\ isAfter(t, (tk.exp - tokenExpirationThreshold) * 1000)

\* the token request() puts on the wire: read from the store when it sends
requestJwt(outerJwt, storedJwt) == storedJwt

\* request(): what goes on the wire for call c
request(c, kind, outerJwt, storedJwt) ==
    [kind |-> kind, call |-> c, bearer |-> requestJwt(outerJwt, storedJwt),
     stored |-> storedJwt,
     url |-> IF kind = "renew" THEN loginUrl ELSE "base"]

\* mutation: the CRUD request is sent in the discovery phase already
KindOfAlwaysCrud(phase) == "crud"

\* the URL httpClient is called with in each phase of an operation
KindOf(phase) == IF phase = "discovery" THEN "classAccessor" ELSE "crud"

\* httpClient(url) called for operation c whose record is k: either the
\* renewal is sent first (refreshToken) or the request itself
\* mutation: the renewal call is not marked
dontRefreshTokenNever(kind) == FALSE

\* options.dontRefreshToken of the call httpClient is entered with: set on
\* the :renew-token call that refreshToken makes
dontRefreshToken(kind) == kind = "renew"

\* refreshToken() enters httpClient again for :renew-token; when that call
\* passes the renewal guard too it enters refreshToken again, and so on
\* without a request ever being sent
renewalRecurs == shouldRefresh(token, dontRefreshToken("renew"), now)

httpClient(c, k) ==
    IF shouldRefresh(token, dontRefreshToken(KindOf(k.phase)), now)
    THEN IF renewalRecurs
         THEN [k EXCEPT !.pc = "overflow", !.renews = 2, !.origs = 0,
                        !.renewed = FALSE]
         ELSE [k EXCEPT !.pc = "renewing", !.renews = 1, !.origs = 0,
                        !.renewed = FALSE]
    ELSE [k EXCEPT !.pc = "requesting", !.renews = 0, !.origs = 1,
                   !.renewed = FALSE,
                   !.disc = IF k.phase = "discovery" THEN @ + 1 ELSE @]

\* mutation: a call that finds a renewal in flight sends none of its own
httpClientSentShared(c, k) ==
    IF shouldRefresh(token, FALSE, now)
    THEN IF \E d \in Calls \ {c} : calls[d].pc = "renewing"
         THEN NoRequest
         ELSE request(c, "renew", token, token)
    ELSE request(c, KindOf(k.phase), token, token)

httpClientSent(c, k) ==
    IF shouldRefresh(token, dontRefreshToken(KindOf(k.phase)), now)
    THEN IF renewalRecurs THEN NoRequest
         ELSE request(c, "renew", token, token)
    ELSE request(c, KindOf(k.phase), token, token)

\* mutation: the catch handler removes the token and leaves the profile
refreshTokenCatchTokenOnly(e, st) ==
    IF e = 401 THEN <<None, st[2]>> ELSE st

\* the catch handler of refreshToken: the store it leaves for error e
refreshTokenCatch(e, st) == IF e = 401 THEN <<None, NoUser>> ELSE st

\* mutation: the renewed token is written under another key
refreshTokenStoreOtherKey(body, old) == old

\* the response handler of refreshToken: what the 'token' key holds after it
refreshTokenStore(body, old) == body

\* mutation: the catch handler does not hand the error on
refreshTokenRejectLost(e) == NoStatus

\* the error the promise of httpClient rejects with when the chain of
\* refreshToken fails with e
refreshTokenReject(e) == e

\* ------------------------------------------------------ invokeDataProvider
\* mutation: a slot that is set is kept
cacheStoreKeepFirst(slot, crud) == IF slot # 0 THEN slot ELSE crud

\* what invokeDataProvider puts in the cache slot when discovery succeeds
cacheStore(slot, crud) == crud

\* mutation: the cache is never consulted
notCachedAlways(r) == TRUE

\* the guard of invokeDataProvider: no CrudResource is cached for r
notCached(r) == resources[r] = 0

\* operations start in the order of their numbers: c is the first on its
\* resource when no operation started before it names the same resource
FirstOn(c) ==
    /\ calls[c].pc # "idle"
    /\ \A d \in Calls :
         (d < c /\ calls[d].pc # "idle") => calls[d].res # calls[c].res

\* dataProvider.<method>(r, params), the c-th call the application makes
InvokeDataProvider(c, r) ==
    /\ c = nextCall
    /\ calls[c].pc = "idle"
    /\ LET k0 == [IdleCall EXCEPT
                    !.res = r,
                    !.afterFirst = \E d \in Calls :
                        /\ FirstOn(d) /\ calls[d].res = r
                        /\ calls[d].phase = "crud",
                    !.phase = IF notCached(r) THEN "discovery" ELSE "crud"]
       IN /\ calls' = [calls EXCEPT ![c] = httpClient(c, k0)]
          /\ sent' = httpClientSent(c, k0)
    /\ nextCall' = c + 1
    /\ resp' = NoResponse /\ settled' = NoSettle
    /\ UNCHANGED <<token, user, loginUrl, initialization, resources, now,
                   loginCall, logoutCall>>
    /\ UNCHANGED crudVars

\* the answer to the :renew-token request of operation c
RenewResponse(c, s, body) ==
    /\ calls[c].pc = "renewing"
    /\ resp' = [kind |-> "renew", call |-> c, status |-> s,
                body |-> IF Is2xx(s) THEN body ELSE None, profile |-> NoUser]
    /\ settled' = NoSettle
    /\ IF Is2xx(s)
       THEN /\ token' = refreshTokenStore(body, token)
            /\ user' = user
            /\ calls' = [calls EXCEPT ![c] =
                  [@ EXCEPT !.pc = "requesting", !.renewed = TRUE,
                            !.origs = @ + 1,
                            !.disc = IF calls[c].phase = "discovery"
                                     THEN @ + 1 ELSE @]]
            /\ sent' = request(c, KindOf(calls[c].phase), token, token')
       ELSE /\ LET st == refreshTokenCatch(s, <<token, user>>)
               IN token' = st[1] /\ user' = st[2]
            /\ calls' = [calls EXCEPT ![c] =
                  [@ EXCEPT !.pc = "rejected", !.failedAt = "renew",
                            !.outcome = refreshTokenReject(s)]]
            /\ sent' = NoRequest
    /\ UNCHANGED <<loginUrl, initialization, resources, now, nextCall,
                   loginCall, logoutCall>>
    /\ UNCHANGED crudVars

\* mutation: the catch handler is on no request()
catchCoversNever(renews) == FALSE

\* the .catch of refreshToken follows the .then that returns request(): it
\* handles the failure of the original request when a renewal preceded it,
\* and is not there when request() was called without renewal
catchCovers(renews) == renews > 0

\* the answer to the request itself (:classAccessor or the CRUD request)
RequestResponse(c, s) ==
    /\ calls[c].pc = "requesting"
    /\ resp' = [kind |-> KindOf(calls[c].phase), call |-> c,
                status |-> s, body |-> None, profile |-> NoUser]
    /\ settled' = NoSettle
    /\ IF Is2xx(s)
       THEN /\ UNCHANGED <<token, user>>
            /\ IF calls[c].phase = "discovery"
               THEN LET k1 == [calls[c] EXCEPT !.phase = "crud"] IN
                    /\ resources' = [resources EXCEPT
                          ![calls[c].res] = cacheStore(@, c)]
                    /\ calls' = [calls EXCEPT ![c] = httpClient(c, k1)]
                    /\ sent' = httpClientSent(c, k1)
               ELSE /\ calls' = [calls EXCEPT ![c] =
                          [@ EXCEPT !.pc = "resolved", !.outcome = s]]
                    /\ sent' = NoRequest
                    /\ UNCHANGED resources
       ELSE /\ LET st == IF catchCovers(calls[c].renews)
                         THEN refreshTokenCatch(s, <<token, user>>)
                         ELSE <<token, user>>
               IN token' = st[1] /\ user' = st[2]
            /\ calls' = [calls EXCEPT ![c] =
                  [@ EXCEPT !.pc = "rejected", !.failedAt = "orig",
                            !.outcome = IF catchCovers(calls[c].renews)
                                        THEN refreshTokenReject(s) ELSE s]]
            /\ sent' = NoRequest
            /\ UNCHANGED resources
    /\ UNCHANGED <<loginUrl, initialization, now, nextCall, loginCall,
                   logoutCall>>
    /\ UNCHANGED crudVars

\* ------------------------------------------------------------ initialization
\* mutation: the login path of the description is ignored
descriptionLoginUrlKeep(hasLoginPath, old) == old

\* the .then of the :description fetch: loginUrl after it
descriptionLoginUrl(hasLoginPath, old) ==
    IF hasLoginPath THEN "discovered" ELSE old

\* json.loginPath as the response carries it
LoginPath == 1

InitializationResolve(hasLoginPath) ==
    /\ initialization = "pending"
    /\ initialization' = "resolved"
    /\ loginUrl' = descriptionLoginUrl(hasLoginPath, loginUrl)
    /\ resp' = [kind |-> "description", call |-> 0, status |-> 200,
                body |-> IF hasLoginPath THEN LoginPath ELSE None,
                profile |-> NoUser]
    /\ sent' = NoRequest /\ settled' = NoSettle
    /\ UNCHANGED <<token, user, resources, now, calls, nextCall, loginCall,
                   logoutCall>>
    /\ UNCHANGED crudVars

InitializationReject(s) ==
    /\ initialization = "pending"
    /\ ~Is2xx(s)
    /\ initialization' = "rejected"
    /\ resp' = [kind |-> "description", call |-> 0, status |-> s,
                body |-> None, profile |-> NoUser]
    /\ sent' = NoRequest /\ settled' = NoSettle
    /\ UNCHANGED <<token, user, loginUrl, resources, now, calls, nextCall,
                   loginCall, logoutCall>>
    /\ UNCHANGED crudVars

\* ------------------------------------------------------------- authProvider
\* the requests login and logout make go through fetch, not httpClient
fetchBearer(storedJwt) == None

Login ==
    /\ loginCall = "idle"
    /\ loginCall' = "inflight"
    /\ sent' = [kind |-> "login", call |-> 0, bearer |-> fetchBearer(token),
                stored |-> token, url |-> loginUrl]
    /\ resp' = NoResponse /\ settled' = NoSettle
    /\ UNCHANGED <<token, user, loginUrl, initialization, resources, now,
                   calls, nextCall, logoutCall>>
    /\ UNCHANGED crudVars

\* mutation: login stores the token and no profile
loginStoreTokenOnly(result, st) == <<result.jwt, st[2]>>

\* what login stores for the result of a 2xx response
loginStore(result, st) == <<result.jwt, UserProfile(result)>>

\* what login leaves in the store for a response outside 2xx
loginFailStore(st) == st

LoginResponse(s, result) ==
    /\ loginCall = "inflight"
    /\ loginCall' = "idle"
    /\ resp' = [kind |-> "login", call |-> 0, status |-> s,
                body |-> IF Is2xx(s) THEN result.jwt ELSE None,
                profile |-> IF Is2xx(s)
                            THEN <<result.userId, result.displayName,
                                   result.administrator, result.groups>>
                            ELSE NoUser]
    /\ sent' = NoRequest
    /\ IF s = NoStatus \/ s < 200 \/ s >= 300
       THEN /\ settled' = [op |-> "login", outcome |-> "rejected",
                           error |-> s]
            /\ LET st == loginFailStore(<<token, user>>)
               IN token' = st[1] /\ user' = st[2]
       ELSE /\ settled' = [op |-> "login", outcome |-> "resolved",
                           error |-> NoStatus]
            /\ LET st == loginStore(result, <<token, user>>)
               IN token' = st[1] /\ user' = st[2]
    /\ UNCHANGED <<loginUrl, initialization, resources, now, calls, nextCall,
                   logoutCall>>
    /\ UNCHANGED crudVars

Logout ==
    /\ logoutCall = "idle"
    /\ logoutCall' = "inflight"
    /\ sent' = [kind |-> "logout", call |-> 0, bearer |-> fetchBearer(token),
                stored |-> token, url |-> loginUrl]
    /\ resp' = NoResponse /\ settled' = NoSettle
    /\ UNCHANGED <<token, user, loginUrl, initialization, resources, now,
                   calls, nextCall, loginCall>>
    /\ UNCHANGED crudVars

\* mutation: logout removes the token and leaves the profile
logoutStoreTokenOnly(st) == <<None, st[2]>>

\* what logout leaves in the store for a 2xx response
logoutStore(st) == <<None, NoUser>>

\* what logout leaves in the store for a response outside 2xx
logoutFailStore(st) == st

LogoutResponse(s) ==
    /\ logoutCall = "inflight"
    /\ logoutCall' = "idle"
    /\ resp' = [kind |-> "logout", call |-> 0, status |-> s, body |-> None,
                profile |-> NoUser]
    /\ sent' = NoRequest
    /\ IF s = NoStatus \/ s < 200 \/ s >= 300
       THEN /\ settled' = [op |-> "logout", outcome |-> "rejected",
                           error |-> s]
            /\ LET st == logoutFailStore(<<token, user>>)
               IN token' = st[1] /\ user' = st[2]
       ELSE /\ settled' = [op |-> "logout", outcome |-> "resolved",
                           error |-> NoStatus]
            /\ LET st == logoutStore(<<token, user>>)
               IN token' = st[1] /\ user' = st[2]
    /\ UNCHANGED <<loginUrl, initialization, resources, now, calls, nextCall,
                   loginCall>>
    /\ UNCHANGED crudVars

\* checkAuth resolves iff a token is stored
checkAuth(jwt) == jwt # None

\* mutation: checkError clears the session for 401 only
checkErrorStore401Only(status, st) ==
    IF status = 401 THEN <<None, NoUser>> ELSE st

\* the store checkError leaves for an error of the given status
checkErrorStore(status, st) ==
    IF status = 401 \/ status = 403 THEN <<None, NoUser>> ELSE st

\* the promise checkError returns for an error of the given status
checkErrorOutcome(status) ==
    IF status = 401 \/ status = 403 THEN "rejected" ELSE "resolved"

\* the framework hands the error of a failed operation to checkError, once
CheckError(c) ==
    /\ calls[c].pc = "rejected"
    /\ LET st == checkErrorStore(calls[c].outcome, <<token, user>>)
       IN token' = st[1] /\ user' = st[2]
    /\ calls' = [calls EXCEPT ![c] =
          [IdleCall EXCEPT !.pc = "checked", !.res = calls[c].res,
                           !.phase = calls[c].phase, !.disc = calls[c].disc,
                           !.afterFirst = calls[c].afterFirst,
                           !.failedAt = calls[c].failedAt]]
    /\ settled' = [op |-> "checkError",
                   outcome |-> checkErrorOutcome(calls[c].outcome),
                   error |-> calls[c].outcome]
    /\ sent' = NoRequest /\ resp' = NoResponse
    /\ UNCHANGED <<loginUrl, initialization, resources, now, nextCall,
                   loginCall, logoutCall>>
    /\ UNCHANGED crudVars

\* ------------------------------------------------------------------- Next
\* the data provider: operations, their renewals, and the error hook
Next ==
    \/ Tick
    \/ \E c \in Calls, r \in Resources : InvokeDataProvider(c, r)
    \/ \E c \in Calls, s \in Statuses, b \in Tokens : RenewResponse(c, s, b)
    \/ \E c \in Calls, s \in Statuses : RequestResponse(c, s)
    \/ \E c \in Calls : CheckError(c)

Spec == Init /\ [][Next]_vars

\* the session: login, logout and the :description fetch next to AuthCalls
\* data-provider operations
NextAuth ==
    \/ Tick
    \/ \E c \in 1..AuthCalls, r \in Resources : InvokeDataProvider(c, r)
    \/ \E c \in Calls, s \in Statuses, b \in Tokens : RenewResponse(c, s, b)
    \/ \E c \in Calls, s \in Statuses : RequestResponse(c, s)
    \/ \E c \in Calls : CheckError(c)
    \/ \E b \in BOOLEAN : InitializationResolve(b)
    \/ \E s \in Statuses : InitializationReject(s)
    \/ Login
    \/ \E s \in Statuses, r \in LoginResults : LoginResponse(s, r)
    \/ Logout
    \/ \E s \in Statuses : LogoutResponse(s)

SpecAuth == Init /\ [][NextAuth]_vars

\* ------------------------------------------------- CrudResource: the codec
\* if(!result.id) { result.id = result.__rowKey; }; a missing __rowKey reads
\* as undefined
synthesizeId(obj) ==
    IF falsy(obj["id"])
    THEN IF obj["__rowKey"] = Absent THEN Undefined ELSE obj["__rowKey"]
    ELSE obj["id"]

\* toPlainJson up to the loop: the id, then delete result.__rowKey
withoutRowKey(obj) ==
    [[obj EXCEPT !["id"] = synthesizeId(obj)] EXCEPT !["__rowKey"] = Absent]

isDateProperty(p) ==
    p \in DOMAIN classAccessor /\ classAccessor[p] \in DateTypes

\* mutation: the envelope is left in place
unwrapKeep(p, x) == x

\* the body of toPlainJson's loop for a property holding an envelope
unwrap(p, x) == IF isDateProperty(p) THEN newDate(x[2]) ELSE x[2]

\* result[p].hasOwnProperty("value") on a property that is undefined or null
toPlainJsonThrows(obj) ==
    \E p \in Fields : hasOwnPropertyThrows(withoutRowKey(obj)[p])

toPlainJson(obj) ==
    LET result == withoutRowKey(obj)
    IN [p \in Fields |->
          IF result[p] # Absent /\ hasOwnPropertyValue(result[p])
          THEN unwrap(p, result[p])
          ELSE result[p]]

\* the properties forUpdate converts: known to the ClassAccessor, truthy, of a
\* date type
forUpdateConverts(data, p) ==
    /\ p \in DOMAIN classAccessor
    /\ data[p] # Absent
    /\ ~falsy(data[p])
    /\ classAccessor[p] \in DateTypes

\* data[p].getTime() on a value that is not a Date
forUpdateThrows(data) ==
    \E p \in Fields : forUpdateConverts(data, p) /\ data[p][1] # "Date"

\* mutation: the date is sent as it is
forUpdateKeep(data) == data

forUpdate(data) ==
    [p \in Fields |->
        IF forUpdateConverts(data, p) THEN getTime(data[p]) ELSE data[p]]

\* ------------------------------------------------ CrudResource: getList
MaxPage == 3
MaxPerPage == 2
Orders == {"ASC", "DESC", "asc"}
SortFields == {"", "name"}
FilterFields == {"name"}

Sort(field, order) == <<"sort", field, order>>
Pagination(page, perPage) == <<"pagination", page, perPage>>
Filter(fields) == <<"filter", fields>>

\* String.prototype.toLowerCase on the orders above
toLowerCase(str) ==
    CASE str = "ASC" -> "asc"
      [] str = "DESC" -> "desc"
      [] OTHER -> str

\* params.sort && params.sort.field
sortGiven(params) == params.sort # Absent /\ params.sort[2] # ""

\* mutation: the page number is taken as it is
firstResultFromPage(page, perPage) == page * perPage

\* (params.pagination.page - 1) * params.pagination.perPage
firstResult(page, perPage) == (page - 1) * perPage

\* the queryString object getList builds; a key that is not set is Absent
queryString(params) ==
    [sortProperty |-> IF sortGiven(params)
                      THEN String(params.sort[2]) ELSE Absent,
     sortDirection |-> IF sortGiven(params)
                       THEN String(toLowerCase(params.sort[3])) ELSE Absent,
     firstResult |-> IF params.pagination # Absent
                     THEN Number(firstResult(params.pagination[2],
                                             params.pagination[3]))
                     ELSE Absent,
     maxResults |-> IF params.pagination # Absent
                    THEN Number(params.pagination[3]) ELSE Absent,
     searchString |-> IF params.filter # Absent
                      THEN <<"search", params.filter[2]>> ELSE Absent]

\* getManyReference: {...params, filter: {...params.filter, [target]: id}}
getManyReferenceParams(params) ==
    [params EXCEPT !.filter =
        Filter((IF params.filter = Absent THEN {} ELSE params.filter[2])
               \cup (IF params.target = Absent THEN {}
                     ELSE {params.target[2]}))]

ListParams ==
    {[sort |-> st, pagination |-> pg, filter |-> fl, target |-> Absent] :
        st \in {Absent} \cup {Sort(f, o) : f \in SortFields, o \in Orders},
        pg \in {Absent} \cup {Pagination(page, perPage) :
                                 page \in 1..MaxPage, perPage \in 1..MaxPerPage},
        fl \in {Absent, Filter({}), Filter(FilterFields)}}

\* ---------------------------------------------- CrudResource: the methods
Methods == {"create", "delete", "deleteMany", "getList", "getMany",
            "getManyReference", "getOne", "update", "updateMany"}
VersionedMethods == {"delete", "deleteMany", "updateMany"}
RecordMethods == {"create", "getOne", "getMany", "update"}
ListMethods == {"getList", "getManyReference"}

\* the records the backend answers with in operations: it always sends the
\* row key, and the name in an envelope
BackendRecords ==
    {r \in WireRecords :
        /\ r["__rowKey"] # Absent
        /\ r["id"] \in {Absent, Number(1), Envelope(Number(1))}
        /\ r["name"] = Envelope(String("n"))
        /\ r["date"] \in {Absent, Envelope(Number(MaxEpoch))}}
\* the records an application edits: decoded ones
PlainRecords == {toPlainJson(r) : r \in BackendRecords}

TypeError == <<"TypeError">>
HttpError(message, status) == <<"HttpError", message, status>>
Messages == {"", "m"}

\* this.httpClient(url, options): with the stored token far from its expiry
\* it is request() alone
send(o, method, header, target, body) ==
    [o EXCEPT !.pc = "requesting", !.net = @ + 1,
              !.req = [method |-> method, header |-> header,
                       target |-> target, body |-> body]]

\* headers.set(PORTOFINO_API_VERSION_HEADER, "5.2") under the gte guard
versionHeader == gte(apiVersion, PORTOFINO_API_VERSION)

\* mutation: getMany always starts loading
getManyLoadsAlways(ids) == TRUE

\* the guard of getMany: params.ids.length > 0
getManyLoads(ids) == Len(ids) > 0

\* load(i) of getMany: getOne of params.ids[i] (indices from 1 here)
load(o, i) ==
    send([o EXCEPT !.i = i], "GET", FALSE,
         <<"id", IF i <= Len(o.ids) THEN o.ids[i] ELSE 0>>, NoBody)

\* the variants of CrudResource.getMany that are implemented
Variants == {"index.ts", "part_001"}

\* the index load recurses on: load(i + 1) in index.ts, load(i + i) in the
\* older variants; the source counts from 0, load(o, i) from 1
loadNext(variant, i) ==
    IF variant = "index.ts" THEN i + 1 ELSE ((i - 1) + (i - 1)) + 1

\* the synchronous part of crud[method](resource, params); a throw leaves the
\* operation at pc onThrow
crudMethod(o, onThrow) ==
    LET throw == [o EXCEPT !.pc = onThrow, !.error = TypeError]
    IN CASE o.method \in {"create", "update"} ->
              IF forUpdateThrows(o.data) THEN throw
              ELSE send(o, IF o.method = "create" THEN "POST" ELSE "PUT",
                        FALSE,
                        IF o.method = "create" THEN <<"resource">>
                        ELSE <<"id", o.id>>,
                        <<"record", forUpdate(o.data)>>)
         [] o.method = "delete" ->
              IF gteThrows(apiVersion, PORTOFINO_API_VERSION) THEN throw
              ELSE send(o, "DELETE", versionHeader, <<"id", o.id>>, NoBody)
         [] o.method = "deleteMany" ->
              IF gteThrows(apiVersion, PORTOFINO_API_VERSION) THEN throw
              ELSE send(o, "DELETE", versionHeader, <<"ids", o.ids>>, NoBody)
         [] o.method = "updateMany" ->
              IF \/ forUpdateThrows(o.data)
                 \/ gteThrows(apiVersion, PORTOFINO_API_VERSION)
              THEN throw
              ELSE send(o, "PUT", versionHeader, <<"ids", o.ids>>,
                        <<"record", forUpdate(o.data)>>)
         [] o.method = "getMany" ->
              IF getManyLoads(o.ids) THEN load(o, 1)
              ELSE [o EXCEPT !.pc = "resolved",
                             !.result = <<"records", <<>>>>]
         [] o.method = "getOne" ->
              send(o, "GET", FALSE, <<"id", o.id>>, NoBody)
         [] o.method = "getManyReference" ->
              send(o, "GET", FALSE,
                   <<"list", queryString(getManyReferenceParams(o.params))>>,
                   NoBody)
         [] OTHER ->
              send(o, "GET", FALSE, <<"list", queryString(o.params)>>, NoBody)

\* the parameters of one call
Params(method) ==
    {[IdleOp EXCEPT !.method = method, !.id = id, !.ids = ids,
                    !.data = data] :
        id \in (IF method \in {"delete", "getOne", "update"}
                THEN Ids ELSE {0}),
        ids \in (IF method \in {"deleteMany", "getMany", "updateMany"}
                 THEN IdLists ELSE {<<>>}),
        data \in (IF method \in {"create", "update", "updateMany"}
                  THEN PlainRecords ELSE {NoBody})}

\* crud[method](resource, params) on a CrudResource the application holds
CallCrudResource(method) ==
    /\ op.pc = "idle"
    /\ ~shouldRefresh(token, FALSE, now)
    /\ \E o \in Params(method) :
         op' = crudMethod([o EXCEPT !.via = "direct"], "thrown")
    /\ UNCHANGED <<token, user, loginUrl, initialization, resources, now,
                   calls, nextCall, loginCall, logoutCall, sent, resp,
                   settled, apiVersion, classAccessor, jwtItem,
                   lastRenew>>

\* dataProvider[method](r, params): invokeDataProvider
CallDataProvider(method, r) ==
    /\ op.pc = "idle"
    /\ ~shouldRefresh(token, FALSE, now)
    /\ \E o \in Params(method) :
         LET k == [o EXCEPT !.via = "dataProvider", !.res = r]
         IN op' = IF notCached(r)
                  THEN [send(k, "GET", FALSE, <<":classAccessor">>, NoBody)
                          EXCEPT !.pc = "discovering"]
                  ELSE crudMethod(k, "thrown")
    /\ UNCHANGED <<token, user, loginUrl, initialization, resources, now,
                   calls, nextCall, loginCall, logoutCall, sent, resp,
                   settled, apiVersion, classAccessor, jwtItem,
                   lastRenew>>

\* ------------------------------------------- CrudResource: the responses
Range(q) == {q[n] : n \in DOMAIN q}
SeqsUpTo(S, n) == UNION {[1..m -> S] : m \in 0..n}

\* what the backend may answer to the request of operation o
Bodies(o) ==
    CASE o.method \in {"delete", "deleteMany"} ->
           {Number(n) : n \in 0..MaxCount} \cup {<<"array", l>> : l \in IdLists}
      [] o.method = "updateMany" -> {<<"array", l>> : l \in IdLists}
      [] o.method \in ListMethods ->
           {<<"list", l>> : l \in SeqsUpTo(BackendRecords, MaxIds)}
      [] OTHER -> {<<"record", r>> : r \in BackendRecords}

\* mutation: the records fetched later come first
loadConcatReversed(first, rest) == rest \o <<first>>

\* [result.data, ...results.data] of load(i)
loadConcat(first, rest) == <<first>> \o rest

\* the data load(i) resolves to once every getOne from i on has resolved
RECURSIVE loadResult(_)
loadResult(acc) ==
    IF Len(acc) = 1 THEN <<acc[1]>>
    ELSE loadConcat(acc[1], loadResult(Tail(acc)))

\* the .then of each method on a 2xx response with body json
handle(o, json, hdr) ==
    LET k == [o EXCEPT !.json = json, !.respHeader = hdr]
        resolve(result) == [k EXCEPT !.pc = "resolved", !.result = result]
        reject(e) == [k EXCEPT !.pc = "rejected", !.error = e]
    IN CASE o.method = "delete" ->
              IF json[1] = "number"
              THEN IF json[2] = 1 THEN resolve(<<"id", Number(o.id)>>)
                   \* Promise.reject() reaches the .catch with e undefined,
                   \* where e.status throws
                   ELSE reject(TypeError)
              ELSE resolve(<<"id", IF Len(json[2]) > 0
                                   THEN Number(json[2][1]) ELSE Undefined>>)
         [] o.method = "deleteMany" ->
              IF json[1] = "number" THEN resolve(<<"ids", o.ids>>)
              ELSE resolve(<<"ids", json[2]>>)
         [] o.method = "updateMany" ->
              IF hdr THEN resolve(<<"ids", json[2]>>)
              ELSE resolve(<<"ids", SelectSeq(o.ids,
                                LAMBDA id : id \notin Range(json[2]))>>)
         [] o.method \in ListMethods ->
              IF \E n \in DOMAIN json[2] : toPlainJsonThrows(json[2][n])
              THEN reject(TypeError)
              ELSE resolve(<<"records",
                             [n \in DOMAIN json[2] |-> toPlainJson(json[2][n])]>>)
         [] o.method = "getMany" ->
              IF toPlainJsonThrows(json[2]) THEN reject(TypeError)
              ELSE LET acc == Append(o.acc, toPlainJson(json[2]))
                       f == [k EXCEPT !.acc = acc,
                                      !.fetched = Append(@,
                                          <<o.req.target[2], json[2]>>)]
                   IN IF o.i = Len(o.ids)
                      THEN [f EXCEPT !.pc = "resolved",
                                     !.result = <<"records", loadResult(acc)>>]
                      ELSE load(f, loadNext(o.variant, o.i))
         [] OTHER ->
              IF toPlainJsonThrows(json[2]) THEN reject(TypeError)
              ELSE resolve(<<"record", toPlainJson(json[2])>>)

\* the .catch of delete and deleteMany; the other methods have none
catch(o, message, status) ==
    IF o.method \in {"delete", "deleteMany"} /\ status = 409
    THEN HttpError(IF message = "" THEN "Could not delete object, constraint violated"
                   ELSE message, status)
    ELSE HttpError(message, status)

\* the response to the request operation o waits on
CrudResponse(s, message, hdr) ==
    /\ op.pc = "requesting"
    /\ op.net <= MaxRequests
    /\ IF Is2xx(s)
       THEN \E json \in Bodies(op) :
              op' = handle([op EXCEPT !.status = s], json, hdr)
       ELSE op' = [op EXCEPT !.pc = "rejected", !.status = s,
                             !.error = catch(op, message, s)]
    /\ UNCHANGED <<token, user, loginUrl, initialization, resources, now,
                   calls, nextCall, loginCall, logoutCall, sent, resp,
                   settled, apiVersion, classAccessor, jwtItem,
                   lastRenew>>

\* the response to :classAccessor of an operation made through dataProvider
ClassAccessorResponse(s, message) ==
    /\ op.pc = "discovering"
    /\ IF Is2xx(s)
       THEN /\ resources' = [resources EXCEPT ![op.res] = cacheStore(@, 1)]
            /\ op' = crudMethod(op, "rejected")
       ELSE /\ resources' = resources
            /\ op' = [op EXCEPT !.pc = "rejected", !.status = s,
                                !.error = HttpError(message, s)]
    /\ UNCHANGED <<token, user, loginUrl, initialization, now, calls,
                   nextCall, loginCall, logoutCall, sent, resp, settled,
                   apiVersion, classAccessor, jwtItem, lastRenew>>

\* the application is done with the operation
Return ==
    /\ op.pc \in {"resolved", "rejected", "thrown"}
    /\ op' = IdleOp
    /\ UNCHANGED <<token, user, loginUrl, initialization, resources, now,
                   calls, nextCall, loginCall, logoutCall, sent, resp,
                   settled, apiVersion, classAccessor, jwtItem,
                   lastRenew>>

InitCrud ==
    /\ InitSession
    /\ apiVersion \in Versions
    /\ classAccessor \in {ca \in ClassAccessors : ca["date"] = "java.util.Date"}
    /\ op = IdleOp
    /\ jwtItem = None
    /\ lastRenew = 0

CrudStatuses == {200, 401, 409, 500}

NextCrud ==
    \/ \E m \in Methods : CallCrudResource(m)
    \/ \E m \in Methods, r \in Resources : CallDataProvider(m, r)
    \/ \E s \in CrudStatuses, message \in Messages, hdr \in BOOLEAN :
         CrudResponse(s, message, hdr)
    \/ \E s \in CrudStatuses, message \in Messages :
         ClassAccessorResponse(s, message)
    \/ Return

SpecCrud == InitCrud /\ [][NextCrud]_vars

\* ------------------------------------------------ the codec on its own
\* this.toPlainJson(json) applied to a record of the backend
Decode(json) ==
    /\ op.pc = "idle"
    /\ op' = IF toPlainJsonThrows(json)
             THEN [IdleOp EXCEPT !.method = "toPlainJson", !.pc = "thrown",
                                 !.json = <<"record", json>>,
                                 !.error = TypeError]
             ELSE [IdleOp EXCEPT !.method = "toPlainJson", !.pc = "resolved",
                                 !.json = <<"record", json>>,
                                 !.result = <<"record", toPlainJson(json)>>]
    /\ UNCHANGED <<token, user, loginUrl, initialization, resources, now,
                   calls, nextCall, loginCall, logoutCall, sent, resp,
                   settled, apiVersion, classAccessor, jwtItem,
                   lastRenew>>

\* this.forUpdate(data) applied to the record just decoded
Encode ==
    /\ op.pc = "resolved" /\ op.method = "toPlainJson"
    /\ LET data == op.result[2]
       IN op' = IF forUpdateThrows(data)
                THEN [op EXCEPT !.method = "forUpdate", !.pc = "thrown",
                                !.data = data, !.result = NoResult,
                                !.error = TypeError]
                ELSE [op EXCEPT !.method = "forUpdate", !.data = data,
                                !.result = <<"record", forUpdate(data)>>]
    /\ UNCHANGED <<token, user, loginUrl, initialization, resources, now,
                   calls, nextCall, loginCall, logoutCall, sent, resp,
                   settled, apiVersion, classAccessor, jwtItem,
                   lastRenew>>

InitCodec ==
    /\ InitSession
    /\ apiVersion = defaultApiVersion
    /\ classAccessor \in ClassAccessors
    /\ op = IdleOp
    /\ jwtItem = None
    /\ lastRenew = 0

NextCodec ==
    \/ \E json \in WireRecords : Decode(json)
    \/ Encode
    \/ Return

SpecCodec == InitCodec /\ [][NextCodec]_vars

\* ------------------------------------------------------ getList on its own
\* crud.getList(resource, params) and crud.getManyReference(resource, params)
CallList(method, params) ==
    /\ op.pc = "idle"
    /\ ~shouldRefresh(token, FALSE, now)
    /\ op' = crudMethod(
                [IdleOp EXCEPT !.method = method,
                    !.params = IF method = "getManyReference"
                               THEN [params EXCEPT !.target = String("ref")]
                               ELSE params],
                "thrown")
    /\ UNCHANGED <<token, user, loginUrl, initialization, resources, now,
                   calls, nextCall, loginCall, logoutCall, sent, resp,
                   settled, apiVersion, classAccessor, jwtItem,
                   lastRenew>>

NextList ==
    \/ \E m \in ListMethods, params \in ListParams : CallList(m, params)
    \/ \E s \in CrudStatuses, message \in Messages, hdr \in BOOLEAN :
         CrudResponse(s, message, hdr)
    \/ Return

SpecList == Init /\ [][NextList]_vars

\* ------------------------------------------------------ getMany on its own
\* crud.getMany(resource, {ids}) in one of its variants
CallGetMany(variant, ids) ==
    /\ op.pc = "idle"
    /\ ~shouldRefresh(token, FALSE, now)
    /\ op' = crudMethod([IdleOp EXCEPT !.method = "getMany", !.ids = ids,
                                       !.variant = variant], "thrown")
    /\ UNCHANGED <<token, user, loginUrl, initialization, resources, now,
                   calls, nextCall, loginCall, logoutCall, sent, resp,
                   settled, apiVersion, classAccessor, jwtItem,
                   lastRenew>>

NextGetMany ==
    \/ \E variant \in Variants, ids \in IdLists : CallGetMany(variant, ids)
    \/ \E s \in CrudStatuses, message \in Messages, hdr \in BOOLEAN :
         CrudResponse(s, message, hdr)
    \/ Return

SpecGetMany == Init /\ [][NextGetMany]_vars

\* -------------------------------------- the older httpClient (part_001)
renewTokenAfterSeconds == 600

\* moments at which the clock of the older variant is observed: the start
\* (lastRenew), the renewal boundary and the instant right after it
OldClockValues ==
    {0, renewTokenAfterSeconds * 1000, renewTokenAfterSeconds * 1000 + 1}

OldTick ==
    /\ \E t \in OldClockValues : t > now /\ now' = t
    /\ sent' = NoRequest /\ resp' = NoResponse /\ settled' = NoSettle
    /\ UNCHANGED <<token, user, loginUrl, initialization, resources, calls,
                   nextCall, loginCall, logoutCall>>
    /\ UNCHANGED crudVars

\* the guard of the older httpClient: a token is stored, renewal is on, the
\* call is not the renewal itself and the last renewal is long ago
shouldRenew(storedToken, noRenew, t) ==
    /\ storedToken # None
    /\ renewTokenAfterSeconds >= 0
    /\ ~noRenew
    /\ t - lastRenew > renewTokenAfterSeconds * 1000

\* httpClient(url) of the older variant, the c-th call made
OldHttpClient(c) ==
    /\ c = nextCall
    /\ calls[c].pc = "idle"
    /\ IF shouldRenew(token, FALSE, now)
       THEN /\ lastRenew' = now
            /\ calls' = [calls EXCEPT ![c] =
                  [IdleCall EXCEPT !.pc = "renewing", !.phase = "crud",
                                   !.renews = 1]]
            /\ sent' = request(c, "renew", token, token)
       ELSE /\ lastRenew' = lastRenew
            /\ calls' = [calls EXCEPT ![c] =
                  [IdleCall EXCEPT !.pc = "requesting", !.phase = "crud",
                                   !.origs = 1]]
            /\ sent' = request(c, "crud", token, token)
    /\ nextCall' = c + 1
    /\ resp' = NoResponse /\ settled' = NoSettle
    /\ UNCHANGED <<token, user, loginUrl, initialization, resources, now,
                   loginCall, logoutCall, apiVersion, classAccessor, op,
                   jwtItem>>

\* the answer to :renew-token in the older variant: renewToken stores the
\* body under 'jwt' and calls request(), which reads 'token'
OldRenewResponse(c, s, body) ==
    /\ calls[c].pc = "renewing"
    /\ resp' = [kind |-> "renew", call |-> c, status |-> s,
                body |-> IF Is2xx(s) THEN body ELSE None, profile |-> NoUser]
    /\ settled' = NoSettle
    /\ IF Is2xx(s)
       THEN /\ jwtItem' = body
            /\ calls' = [calls EXCEPT ![c] =
                  [@ EXCEPT !.pc = "requesting", !.renewed = TRUE,
                            !.origs = @ + 1]]
            /\ sent' = request(c, "crud", token, token)
       ELSE /\ jwtItem' = IF s = 401 THEN None ELSE jwtItem
            /\ calls' = [calls EXCEPT ![c] =
                  [@ EXCEPT !.pc = "rejected", !.failedAt = "renew",
                            !.outcome = s]]
            /\ sent' = NoRequest
    /\ UNCHANGED <<token, user, loginUrl, initialization, resources, now,
                   nextCall, loginCall, logoutCall, apiVersion, classAccessor,
                   op, lastRenew>>

\* the answer to the request itself in the older variant
OldRequestResponse(c, s) ==
    /\ calls[c].pc = "requesting"
    /\ resp' = [kind |-> "crud", call |-> c, status |-> s, body |-> None,
                profile |-> NoUser]
    /\ settled' = NoSettle
    /\ sent' = NoRequest
    /\ calls' = [calls EXCEPT ![c] =
          [@ EXCEPT !.pc = IF Is2xx(s) THEN "resolved" ELSE "rejected",
                    !.failedAt = IF Is2xx(s) THEN @ ELSE "orig",
                    !.outcome = s]]
    /\ jwtItem' = IF ~Is2xx(s) /\ calls[c].renews > 0 /\ s = 401
                THEN None ELSE jwtItem
    /\ UNCHANGED <<token, user, loginUrl, initialization, resources, now,
                   nextCall, loginCall, logoutCall, apiVersion, classAccessor,
                   op, lastRenew>>

NextOld ==
    \/ OldTick
    \/ \E c \in Calls : OldHttpClient(c)
    \/ \E c \in Calls, s \in Statuses, b \in Tokens : OldRenewResponse(c, s, b)
    \/ \E c \in Calls, s \in Statuses : OldRequestResponse(c, s)

SpecOld == Init /\ [][NextOld]_vars

\* =================================================================== claims
Settled(c) == calls[c].pc \in {"resolved", "rejected", "checked"}

\* the renewal that precedes the :classAccessor request is pending or failed
StoppedAtRenewal(c) ==
    /\ calls[c].phase = "discovery"
    /\ calls[c].pc = "renewing" \/ calls[c].failedAt = "renew"

\* the step starts operation c
Started(c) == calls[c].pc = "idle" /\ calls'[c].pc # "idle"

\* the step calls httpClient for operation c (for :classAccessor or for the
\* CRUD request)
Invoked(c) == calls'[c].phase # calls[c].phase

\* the step receives the answer to a request of operation c
Answered(c, kind) == resp'.call = c /\ resp'.kind = kind

\* number of operations on r that sent a :classAccessor request
Fetches(r) ==
    Cardinality({ c \in Calls : calls[c].res = r /\ calls[c].disc > 0 })

\* C1 as stated: the first operation on a resource, once settled, has issued
\* exactly one :classAccessor GET, and an operation started after the first
\* operation's discovery succeeded has issued none
C1_ExactlyOneDiscovery ==
    \A c \in Calls :
      /\ (FirstOn(c) /\ Settled(c)) => calls[c].disc = 1
      /\ calls[c].afterFirst => calls[c].disc = 0

\* C1 amended: the first operation on a resource issues at most one
\* :classAccessor GET, exactly one unless the token renewal httpClient runs
\* before it is pending or has failed (then none); an operation started after
\* the first operation's discovery succeeded issues none
C1_OneDiscoveryUnlessRenewalFails ==
    \A c \in Calls :
      /\ FirstOn(c) =>
           calls[c].disc = IF StoppedAtRenewal(c) THEN 0 ELSE 1
      /\ calls[c].afterFirst => calls[c].disc = 0 /\ calls[c].phase = "crud"

C1_Witness ==
    \E c, d \in Calls :
      /\ FirstOn(c) /\ calls[c].pc = "resolved" /\ calls[c].disc = 1
      /\ calls[d].afterFirst /\ calls[d].res = calls[c].res
      /\ calls[d].pc = "resolved" /\ calls[d].disc = 0

\* C2 as stated: at most one metadata fetch per resource name under any
\* interleaving, and a cache slot that is set is never replaced
C2_AtMostOneFetchPerResource ==
    [][\A r \in Resources :
         /\ Fetches(r)' <= 1
         /\ resources[r] # 0 => resources'[r] = resources[r]]_vars

\* C2 amended: at most one metadata fetch per operation, issued only by an
\* operation started while the slot of its resource was empty; every
\* successful discovery writes its own CrudResource into the slot (the last
\* one wins), nothing else writes it, and a slot that is set is never emptied
C2_OneFetchPerOperationLastWriteWins ==
    [][/\ \A r \in Resources :
            /\ resources[r] # 0 => resources'[r] # 0
            /\ resources'[r] # resources[r] =>
                 /\ Answered(resources'[r], "classAccessor")
                 /\ Is2xx(resp'.status)
                 /\ calls[resources'[r]].res = r
       /\ \A c \in Calls :
            /\ calls'[c].disc <= 1
            /\ (Answered(c, "classAccessor") /\ Is2xx(resp'.status)) =>
                 resources'[calls[c].res] = c
            /\ Started(c) =>
                 (calls'[c].phase = "discovery"
                    <=> resources[calls'[c].res] = 0)
            /\ calls'[c].disc > calls[c].disc =>
                 calls'[c].phase = "discovery"]_vars

C2_Witness ==
    \E r \in Resources :
      /\ Fetches(r) = 2
      /\ resources[r] = 2
      /\ calls[1].phase = "crud" /\ calls[1].disc = 1
      /\ resp.kind = "classAccessor" /\ resp.call = 2

\* C3: whenever a token is stored when a request is sent, the request
\* carries it as its bearer credential, the :renew-token request excepted
C3_EveryRequestCarriesToken ==
    (sent.kind \notin {"none", "renew"} /\ sent.stored # None)
       => sent.bearer = sent.stored

\* C4: an httpClient call that is not the renewal, made at time T with a
\* stored token of exp claim E: if E - T < tokenExpirationThreshold, exactly
\* one :renew-token POST is issued and has completed before the request is
\* sent; if E - T > tokenExpirationThreshold, no renewal is issued and the
\* request is sent directly
C4_RenewalIffNearExpiry ==
    [][\A c \in Calls :
         /\ (Invoked(c) /\ token # None /\ TokenExp(token) # NoExp) =>
              /\ TokenExp(token) * 1000 - now < tokenExpirationThreshold * 1000
                   => /\ calls'[c].renews = 1 /\ calls'[c].origs = 0
                      /\ sent'.kind = "renew" /\ sent'.call = c
              /\ TokenExp(token) * 1000 - now > tokenExpirationThreshold * 1000
                   => /\ calls'[c].renews = 0 /\ calls'[c].origs = 1
                      /\ sent'.kind = KindOf(calls'[c].phase)
                      /\ sent'.call = c
         /\ (~Invoked(c) /\ calls'[c].pc # "checked") =>
              calls'[c].renews = calls[c].renews
         /\ (calls'[c].renews = 1 /\ calls'[c].origs = 1) =>
              calls'[c].renewed
         /\ calls'[c].origs > calls[c].origs /\ calls[c].renews = 1 =>
              (Answered(c, "renew") /\ Is2xx(resp'.status))]_vars

C4_Witness ==
    \E c \in Calls :
      /\ calls[c].renews = 1 /\ calls[c].renewed /\ calls[c].origs = 1
      /\ sent.call = c /\ sent.kind = KindOf(calls[c].phase)

\* C5: when the renewal succeeds, the token it returns replaces the stored
\* token, only then the original request is sent (carrying it), and the
\* caller receives the outcome of the original request
C5_RenewalSuccessThenRequest ==
    [][\A c \in Calls :
         /\ (calls[c].pc = "renewing" /\ Answered(c, "renew")
               /\ Is2xx(resp'.status)) =>
              /\ token' = resp'.body
              /\ calls[c].origs = 0 /\ calls'[c].origs = 1
              /\ sent'.call = c /\ sent'.kind = KindOf(calls[c].phase)
              /\ sent'.bearer = resp'.body
         /\ (calls[c].pc = "requesting" /\ calls[c].renewed
               /\ Answered(c, KindOf(calls[c].phase))) =>
              IF Is2xx(resp'.status)
              THEN \/ calls[c].phase = "discovery"
                        /\ calls'[c].phase = "crud"
                   \/ calls[c].phase = "crud"
                        /\ calls'[c].pc = "resolved"
                        /\ calls'[c].outcome = resp'.status
              ELSE /\ calls'[c].pc = "rejected"
                   /\ calls'[c].outcome = resp'.status]_vars

C5_Witness ==
    \E c \in Calls :
      /\ calls[c].renewed /\ calls[c].pc = "resolved"
      /\ resp.call = c /\ resp.kind = "crud"

\* C6: when the renewal fails (any status, or no status at all), the
\* original request of that httpClient call is never sent and the promise
\* rejects with the renewal's error
C6_RenewalFailureRejects ==
    [][\A c \in Calls :
         /\ (calls[c].pc = "renewing" /\ Answered(c, "renew")
               /\ ~Is2xx(resp'.status)) =>
              /\ calls'[c].pc = "rejected"
              /\ calls'[c].outcome = resp'.status
              /\ calls'[c].origs = 0
              /\ sent' = NoRequest
         /\ calls[c].failedAt = "renew" =>
              /\ calls'[c].origs = 0
              /\ sent'.call # c
              /\ calls'[c].pc \in {"rejected", "checked"}]_vars

C6_Witness ==
    \E c \in Calls :
      /\ calls[c].pc = "rejected" /\ calls[c].failedAt = "renew"
      /\ calls[c].outcome = 500 /\ calls[c].origs = 0

\* C7: when the renewal is answered 401, the stored token and the stored
\* profile are both removed and the original call rejects with that 401
C7_Renewal401ClearsSession ==
    [][\A c \in Calls :
         (calls[c].pc = "renewing" /\ Answered(c, "renew")
            /\ resp'.status = 401) =>
           /\ token' = None /\ user' = NoUser
           /\ calls'[c].pc = "rejected" /\ calls'[c].outcome = 401]_vars

C7_Witness ==
    \E c \in Calls :
      /\ resp.kind = "renew" /\ resp.call = c /\ resp.status = 401
      /\ calls[c].pc = "rejected" /\ calls[c].outcome = 401
      /\ token = None /\ user = NoUser

\* C8 as stated: as soon as a data, discovery or renewal request is answered
\* 401 or 403, the stored token and profile are cleared and checkAuth fails
C8_AuthFailureClearsOnResponse ==
    (resp.kind \in {"classAccessor", "crud", "renew"}
       /\ resp.status \in {401, 403})
      => (token = None /\ user = NoUser /\ ~checkAuth(token))

\* C8 amended: the session is cleared when the error of the failed call is
\* handed to checkError: for status 401 or 403 checkError removes token and
\* profile, rejects, and checkAuth fails right after it; once no token is
\* stored, only a successful login or the answer to a renewal still in
\* flight stores one again
C8_CheckErrorClearsSession ==
    [][/\ \A c \in Calls :
            (calls[c].pc = "rejected" /\ calls'[c].pc = "checked"
               /\ calls[c].outcome \in {401, 403}) =>
              /\ token' = None /\ user' = NoUser
              /\ ~checkAuth(token')
              /\ settled'.op = "checkError"
              /\ settled'.outcome = "rejected"
       /\ (~checkAuth(token) /\ checkAuth(token')) =>
            /\ resp'.kind \in {"login", "renew"}
            /\ Is2xx(resp'.status)]_vars

C8_Witness ==
    /\ settled.op = "checkError" /\ settled.error = 403
    /\ settled.outcome = "rejected"
    /\ token = None /\ user = NoUser
    /\ loginCall = "idle"

\* C9: login: on a 2xx answer the token of the response and the profile
\* (userId, displayName, administrator, groups) are stored; on an answer
\* outside 2xx login rejects with the status text and leaves the stored
\* token and profile as they are
C9_LoginStoresOrRejects ==
    [][resp'.kind = "login" =>
         IF Is2xx(resp'.status)
         THEN /\ token' = resp'.body
              /\ user' = resp'.profile
              /\ user' # NoUser
              /\ settled'.op = "login" /\ settled'.outcome = "resolved"
         ELSE /\ settled'.op = "login" /\ settled'.outcome = "rejected"
              /\ settled'.error = resp'.status
              /\ token' = token /\ user' = user]_vars

C9_Witness ==
    /\ settled.op = "login" /\ settled.outcome = "resolved"
    /\ resp.kind = "login" /\ token = resp.body /\ user = resp.profile
    /\ user # NoUser

\* C10: logout: on a 2xx answer the token and the profile are both removed;
\* on an answer outside 2xx logout rejects and leaves them as they are
C10_LogoutClearsOrRejects ==
    [][resp'.kind = "logout" =>
         IF Is2xx(resp'.status)
         THEN /\ token' = None /\ user' = NoUser
              /\ settled'.op = "logout" /\ settled'.outcome = "resolved"
         ELSE /\ settled'.op = "logout" /\ settled'.outcome = "rejected"
              /\ token' = token /\ user' = user]_vars

C10_Witness ==
    /\ settled.op = "logout" /\ settled.outcome = "resolved"
    /\ resp.kind = "logout" /\ token = None /\ user = NoUser

\* ------------------------------------------------- claims on CrudResource
Ended(o) == o.pc \in {"resolved", "rejected", "thrown"}

\* a method called on a CrudResource the application holds ends in this step
EndsDirect(methods) ==
    /\ op'.via = "direct" /\ op'.method \in methods
    /\ ~Ended(op) /\ Ended(op')

\* C11: a delete or deleteMany on a CrudResource ends on the backend's answer
\* to its DELETE request, and when that answer is 409 it rejects with the
\* constraint-violation HttpError carrying the backend's message and status
\* 409, the stored token and user profile being left as they were
C11_ConflictRejectsWithHttpError ==
    [][EndsDirect({"delete", "deleteMany"}) =>
         /\ op'.req.method = "DELETE"
         /\ op'.status = 409 =>
              /\ op'.pc = "rejected"
              /\ op'.error[1] = "HttpError" /\ op'.error[3] = 409
              /\ token' = token /\ user' = user]_vars

\* C12: a getMany with a non-empty id list that resolves has fetched the ids
\* one by one in the order given and returns the decoded records in that
\* order, position i holding the record fetched for ids[i], duplicates
\* included; when a fetch fails the whole getMany rejects with that failure
\* and returns no partial result
C12_GetManyKeepsOrderOrRejects ==
    (op.method = "getMany" /\ op.i >= 1) =>
        /\ op.pc = "resolved" =>
             /\ Len(op.fetched) = Len(op.ids)
             /\ op.result =
                  <<"records", [n \in 1..Len(op.ids) |->
                                   toPlainJson(op.fetched[n][2])]>>
             /\ \A n \in 1..Len(op.ids) : op.fetched[n][1] = op.ids[n]
        /\ (op.status # NoStatus /\ ~Is2xx(op.status)) =>
             /\ op.pc = "rejected"
             /\ op.result = NoResult
             /\ op.error[1] = "HttpError" /\ op.error[3] = op.status

C12_Witness ==
    /\ op.method = "getMany" /\ op.pc = "resolved"
    /\ Len(op.ids) = 2 /\ op.ids[1] = op.ids[2]
    /\ op.fetched[1][2] # op.fetched[2][2]
    /\ op.result[2][1] = toPlainJson(op.fetched[1][2])

EmptyGetMany == op.method = "getMany" /\ op.ids = <<>> /\ op.pc # "idle"

\* C13 (as stated): a getMany with an empty id list resolves to {data: []}
\* without any network call, on a CrudResource directly and through
\* dataProvider.getMany on a resource not used before
C13_EmptyGetManyNoNetwork ==
    EmptyGetMany =>
        /\ op.pc = "resolved"
        /\ op.result = <<"records", <<>>>>
        /\ op.net = 0

\* C13 (amended): a getMany with an empty id list never issues a getOne
\* request. On a CrudResource directly, or through dataProvider.getMany on a
\* resource whose CrudResource is cached, it resolves to {data: []} at once
\* with no network call. Through dataProvider.getMany on a resource not used
\* before, the :classAccessor GET is issued first and is the only request: the
\* call resolves to {data: []} when it succeeds and rejects with its failure
\* otherwise
C13_EmptyGetManyOnlyDiscovers ==
    EmptyGetMany =>
        \/ /\ op.pc = "resolved"
           /\ op.result = <<"records", <<>>>>
           /\ op.net = 0
           /\ op.via = "direct" \/ ~notCached(op.res)
        \/ /\ op.via = "dataProvider"
           /\ op.net = 1
           /\ op.req.method = "GET" /\ op.req.target = <<":classAccessor">>
           /\ \/ op.pc = "discovering" /\ notCached(op.res)
              \/ /\ op.pc = "resolved" /\ op.result = <<"records", <<>>>>
                 /\ ~notCached(op.res)
              \/ /\ op.pc = "rejected" /\ ~Is2xx(op.status)
                 /\ op.error = HttpError(op.error[2], op.status)

C13_Witness ==
    /\ EmptyGetMany /\ op.via = "dataProvider"
    /\ op.pc = "resolved" /\ op.result = <<"records", <<>>>>
    /\ op.net = 1 /\ op.req.target = <<":classAccessor">>

\* C14: a delete(id) on a CrudResource ends on the body of the answer to its
\* DELETE request: a number resolves to {data: {id}} with the requested id
\* when it is 1 and fails for every other number; an array resolves to
\* {data: {id: first element}}
C14_DeleteResultFromBody ==
    (op.via = "direct" /\ op.method = "delete" /\ Ended(op)) =>
        /\ op.req.method = "DELETE"
        /\ Is2xx(op.status) =>
             IF op.json[1] = "number"
             THEN IF op.json[2] = 1
                  THEN /\ op.pc = "resolved"
                       /\ op.result = <<"id", Number(op.id)>>
                  ELSE op.pc = "rejected"
             ELSE /\ op.pc = "resolved"
                  /\ Len(op.json[2]) > 0 =>
                       op.result = <<"id", Number(op.json[2][1])>>

\* C15: a deleteMany(ids) on a CrudResource ends on the body of the answer to
\* its DELETE request: a number resolves to exactly the requested id list,
\* whatever the number; an array resolves to exactly that array
C15_DeleteManyResultFromBody ==
    (op.via = "direct" /\ op.method = "deleteMany" /\ Ended(op)) =>
        /\ op.req.method = "DELETE"
        /\ Is2xx(op.status) =>
             /\ op.pc = "resolved"
             /\ op.result = <<"ids", IF op.json[1] = "number"
                                     THEN op.ids ELSE op.json[2]>>

\* C16: an updateMany on a CrudResource ends on the answer to its PUT
\* request: with the X-Portofino-API-Version header on the response the data
\* is the body unchanged; without it the data is the requested ids without
\* those the body lists, in the requested order
C16_UpdateManyResultFromAnswer ==
    (op.via = "direct" /\ op.method = "updateMany" /\ Ended(op)) =>
        /\ op.req.method = "PUT"
        /\ Is2xx(op.status) =>
             /\ op.pc = "resolved"
             /\ op.result =
                  <<"ids", IF op.respHeader THEN op.json[2]
                           ELSE SelectSeq(op.ids,
                                    LAMBDA id : \A n \in DOMAIN op.json[2] :
                                                   op.json[2][n] # id)>>

\* the claim's order on versions: MAJOR.MINOR at least 5.2
AtLeast52(v) == v[1] > 5 \/ (v[1] = 5 /\ v[2] >= 2)

\* C17: delete, deleteMany and updateMany send their request with the
\* X-Portofino-API-Version header exactly when apiVersion is at least 5.2 (the
\* default) and without it when apiVersion is lower; getOne, getList,
\* getMany, getManyReference, create and update never send it
C17_VersionHeaderIffAtLeast52 ==
    (op.via = "direct" /\ op.pc # "idle") =>
        IF op.method \in VersionedMethods
        THEN /\ op.req.method \in {"DELETE", "PUT"}
             /\ op.req.header = AtLeast52(apiVersion)
        ELSE op.req.header = FALSE

NoEnvelope(rec) == \A p \in Fields : rec[p][1] # "envelope"
HasEnvelope(rec) == \E p \in Fields : rec[p][1] = "envelope"

Decoded == op.method = "toPlainJson" /\ op.pc = "resolved"
Encoded == op.method = "forUpdate" /\ op.pc = "resolved"
wire == op.json[2]

\* the epoch value the backend sent for the date field, in an envelope or not
SentEpoch(x) == x[1] = "number" \/ (x[1] = "envelope" /\ x[2][1] = "number")
epochOf(x) == IF x[1] = "number" THEN x[2] ELSE x[2][2]

plain(x) == IF x[1] = "envelope" THEN x[2] ELSE x

\* C20: for every input record the output of toPlainJson has no __rowKey;
\* its id is the input's __rowKey exactly when the input has no id field, and
\* the input's own id, 0 included, when it has one; the name, when it comes in
\* an envelope, is replaced by the inner value
C20_IdFromRowKeyOnlyWhenAbsent ==
    Decoded =>
        /\ op.result[2]["__rowKey"] = Absent
        /\ op.result[2]["id"] = IF wire["id"] = Absent THEN wire["__rowKey"]
                                ELSE plain(wire["id"])
        /\ op.result[2]["name"] = plain(wire["name"])

\* ---------------------------------------------------- claims, continued
SessionRequest(q) == q.kind \in {"login", "logout", "renew"}

\* C21: a login, logout or renewal issued while the :description fetch is
\* pending goes to the default <base>/login; once that fetch has resolved
\* with a loginPath the login URL is <base><loginPath> for good and every
\* login, logout or renewal goes there; a data operation can be started
\* whatever the state of the initialization
C21_LoginUrlAsCurrentlyKnown ==
    [][/\ SessionRequest(sent') =>
            /\ sent'.url = loginUrl
            /\ initialization = "pending" => sent'.url = "default"
       /\ (resp'.kind = "description" /\ resp'.body = LoginPath) =>
            loginUrl' = "discovered"
       /\ loginUrl = "discovered" => loginUrl' = "discovered"
       /\ nextCall <= AuthCalls =>
            \A r \in Resources : ENABLED InvokeDataProvider(nextCall, r)]_vars

C21_Witness ==
    /\ initialization = "resolved" /\ loginUrl = "discovered"
    /\ sent.kind = "renew" /\ sent.url = "discovered"
    /\ loginCall = "inflight"

ListCall == op.method = "getList" /\ op.pc # "idle"
query == op.req.target[2]

\* C22: the query of getList carries sortProperty and sortDirection exactly
\* when a sort field is given, sortDirection being the order in lower case;
\* with a pagination firstResult is (page - 1) * perPage and maxResults is
\* perPage, so that page 1 starts at 0 and the range of each page ends where
\* that of the next page starts
C22_GetListQuery ==
    ListCall =>
        /\ (query.sortProperty # Absent) <=>
               (op.params.sort # Absent /\ op.params.sort[2] # "")
        /\ (query.sortDirection # Absent) <=> (query.sortProperty # Absent)
        /\ query.sortProperty # Absent =>
              /\ query.sortProperty = String(op.params.sort[2])
              /\ query.sortDirection \in {String("asc"), String("desc")}
              /\ op.params.sort[3] \in {"ASC", "asc"} =>
                    query.sortDirection = String("asc")
              /\ op.params.sort[3] = "DESC" =>
                    query.sortDirection = String("desc")
        /\ op.params.pagination # Absent =>
              LET page == op.params.pagination[2]
                  perPage == op.params.pagination[3]
              IN /\ query.firstResult = Number((page - 1) * perPage)
                 /\ query.maxResults = Number(perPage)
                 /\ page = 1 => query.firstResult = Number(0)
                 /\ firstResult(page + 1, perPage)
                      = query.firstResult[2] + query.maxResults[2]

C22_Witness ==
    /\ ListCall /\ op.pc = "resolved"
    /\ op.params.sort = Sort("name", "DESC")
    /\ op.params.pagination = Pagination(MaxPage, MaxPerPage)
    /\ query.sortDirection = String("desc")
    /\ query.firstResult = Number((MaxPage - 1) * MaxPerPage)

\* the discovery of the operation answered in this step fails: its
\* :classAccessor request, or the renewal sent before it, is answered outside
\* 2xx
DiscoveryFails ==
    /\ resp'.kind \in {"classAccessor", "renew"}
    /\ calls[resp'.call].phase = "discovery"
    /\ ~Is2xx(resp'.status)

\* C23 (as stated): no CRUD request for a resource is sent before a discovery
\* for it has succeeded; an operation whose discovery fails rejects with that
\* error, sends no CRUD request, and the cache slot of its resource is empty
\* afterwards
C23_FailedDiscoveryLeavesSlotEmpty ==
    [][/\ sent'.kind = "crud" => resources'[calls'[sent'.call].res] # 0
       /\ DiscoveryFails =>
            /\ calls'[resp'.call].pc = "rejected"
            /\ calls'[resp'.call].outcome = resp'.status
            /\ sent' = NoRequest
            /\ resources'[calls[resp'.call].res] = 0]_vars

\* C23 (amended): the same, except that the failure leaves the cache slot as
\* it was: empty, unless the discovery of another operation on the same
\* resource has succeeded in the meantime
C23_FailedDiscoveryLeavesSlotAsItWas ==
    [][/\ sent'.kind = "crud" => resources'[calls'[sent'.call].res] # 0
       /\ DiscoveryFails =>
            /\ calls'[resp'.call].pc = "rejected"
            /\ calls'[resp'.call].outcome = resp'.status
            /\ sent' = NoRequest
            /\ resources' = resources
            /\ resources[calls[resp'.call].res] # 0 =>
                 \E d \in Calls \ {resp'.call} :
                    /\ calls[d].res = calls[resp'.call].res
                    /\ resources[calls[d].res] = d]_vars

C23_Witness ==
    /\ resp.kind = "classAccessor" /\ ~Is2xx(resp.status)
    /\ calls[resp.call].pc = "rejected"
    /\ calls[resp.call].outcome = resp.status
    /\ resources[calls[resp.call].res] # 0

\* httpClient is entered for operation c in this step: the operation starts,
\* or its discovery has succeeded and its CRUD request is due
Enters(c) ==
    \/ calls[c].pc = "idle" /\ calls'[c].pc # "idle"
    \/ resp'.kind = "classAccessor" /\ resp'.call = c /\ Is2xx(resp'.status)

\* C24: every call that finds the token about to expire sends a renewal of
\* its own, whatever renewals of other calls are in flight; a call has at
\* most one renewal in flight, and its original request goes out only in the
\* step in which its own renewal is answered with success
C24_OneRenewalPerCall ==
    [][\A c \in Calls :
         /\ (Enters(c) /\ shouldRefresh(token, FALSE, now)) =>
              /\ sent'.kind = "renew" /\ sent'.call = c
              /\ calls'[c].pc = "renewing" /\ calls'[c].renews = 1
              /\ calls'[c].origs = 0
         /\ calls'[c].renews <= 1
         /\ (sent'.kind \in {"crud", "classAccessor"} /\ sent'.call = c
               /\ calls'[c].renews = 1) =>
              /\ calls[c].pc = "renewing"
              /\ resp'.kind = "renew" /\ resp'.call = c
              /\ Is2xx(resp'.status)]_vars

C24_Witness ==
    /\ \A c \in Calls : calls[c].pc = "renewing" /\ calls[c].renews = 1
    /\ sent.kind = "renew" /\ sent.call = MaxCalls

\* C25: the renewal call is not itself preceded by a renewal: one entry of
\* httpClient sends at most one :renew-token request and at most one original
\* request, also when the stored token is past its expiry or still near it
\* after the renewal, and each answer settles the promise or lets it go on
C25_RenewalDoesNotRecur ==
    [][\A c \in Calls :
         /\ calls'[c].renews <= 1 /\ calls'[c].origs <= 1
         /\ calls'[c].pc # "overflow"
         /\ calls'[c].pc = "renewing" =>
              calls'[c].renews = 1 /\ calls'[c].origs = 0
         /\ calls'[c].pc = "requesting" => calls'[c].origs = 1
         /\ (resp'.call = c /\ resp'.kind = "renew") =>
              IF Is2xx(resp'.status)
              THEN calls'[c].pc = "requesting" /\ sent'.kind # "renew"
              ELSE calls'[c].pc = "rejected"
         /\ (resp'.call = c /\ resp'.kind = "crud") =>
              calls'[c].pc \in {"resolved", "rejected"}
         /\ (resp'.call = c /\ resp'.kind = "classAccessor"
               /\ ~Is2xx(resp'.status)) =>
              calls'[c].pc = "rejected"]_vars

C25_Witness ==
    \E c \in Calls :
        /\ calls[c].pc = "requesting" /\ calls[c].renewed
        /\ calls[c].renews = 1 /\ calls[c].origs = 1
        /\ resp.kind = "renew" /\ resp.call = c
        /\ shouldRefresh(token, FALSE, now)
        /\ now > TokenExp(token) * 1000

\* C26: in every variant, a getMany for n >= 1 ids sends its getOne requests
\* one at a time, the k-th for ids[k], n of them when every fetch succeeds,
\* sends nothing after a fetch that failed, and then settles
C26_GetManySequentialAndFinite ==
    (op.method = "getMany" /\ Len(op.ids) >= 1 /\ op.pc # "idle") =>
        /\ op.net <= Len(op.ids)
        /\ op.req.target = <<"id", op.ids[op.net]>>
        /\ Len(op.fetched) \in {op.net - 1, op.net}
        /\ \A n \in DOMAIN op.fetched : op.fetched[n][1] = op.ids[n]
        /\ op.pc = "resolved" => op.net = Len(op.ids)
        /\ (op.status # NoStatus /\ ~Is2xx(op.status)) => op.pc = "rejected"

\* C27: in every reachable state the token and the user profile are stored
\* together or absent together
C27_TokenAndProfileTogether == (token = None) <=> (user = NoUser)

\* C28: once the session has been cleared, by a logout that succeeded or by
\* checkError, no token is stored and checkAuth fails until a login
\* succeeds: a step stores a token where there was none only when it is the
\* 2xx answer to a login
C28_NoTokenUntilNextLogin ==
    [][(~checkAuth(token) /\ checkAuth(token')) =>
          (resp'.kind = "login" /\ Is2xx(resp'.status))]_vars

HttpClientResponse == resp'.kind \in {"renew", "classAccessor", "crud"}
StoreUnchanged == token' = token /\ user' = user
StoreRemoved == token' = None /\ user' = NoUser

\* C29 (as stated): httpClient removes the token and the profile only when
\* the :renew-token request is answered 401; a 401 to the original request
\* leaves the store as it is, with or without a renewal before it, and so
\* does a renewal failing with another status
C29_RemovesOnlyOnRenewal401 ==
    [][HttpClientResponse =>
         IF resp'.kind = "renew"
         THEN IF resp'.status = 401 THEN StoreRemoved
              ELSE ~Is2xx(resp'.status) => StoreUnchanged
         ELSE StoreUnchanged]_vars

\* C29 (amended): httpClient removes the token and the profile when a request
\* of the renewal chain is answered 401: the :renew-token request, or the
\* original request sent after a successful renewal; a 401 to an original
\* request sent without renewal, and any other failure, leave the store as
\* it is
C29_RemovesOn401InRenewalChain ==
    [][HttpClientResponse =>
         IF resp'.kind = "renew"
         THEN IF resp'.status = 401 THEN StoreRemoved
              ELSE ~Is2xx(resp'.status) => StoreUnchanged
         ELSE IF resp'.status = 401 /\ calls[resp'.call].renews = 1
              THEN StoreRemoved
              ELSE StoreUnchanged]_vars

C29_Witness ==
    /\ resp.kind = "crud" /\ resp.status = 401
    /\ calls[resp.call].renews = 1 /\ calls[resp.call].renewed
    /\ calls[resp.call].pc = "rejected"
    /\ token = None /\ user = NoUser

\* C30: in every variant of httpClient that renews, the token of a successful
\* renewal is stored under the key request() and checkAuth read, and the
\* original request sent after the renewal carries it
C30_RenewedTokenIsTheOneSent ==
    [][(resp'.kind = "renew" /\ Is2xx(resp'.status)) =>
          /\ token' = resp'.body
          /\ sent'.call = resp'.call
          /\ sent'.bearer = resp'.body]_vars
====
